---- MODULE Spec2Model ----
(***************************************************************************)
(* State-machine model of the drop_move crate: DropMoveWrapper (the cell   *)
(* that suppresses the inner value's own teardown), DropHandle (the view   *)
(* handed to DropMove::drop_move) and the user code around them.           *)
(*                                                                         *)
(* Everything is synchronous and single-owner, so the model keeps a call   *)
(* stack of running drop_move invocations; only the code of the innermost  *)
(* frame (or top-level user code when the stack is empty) takes steps.     *)
(***************************************************************************)
EXTENDS Integers, Sequences, FiniteSets, TLC

\* ---------------------------------------------------------------- bounds
NumValues == 1      \* logical values the user code constructs
MaxCells  == 3      \* DropMoveWrapper instances ever created
MaxPlainCalls == 2  \* calls of a guarded function that do not consume it
MaxField  == 2      \* largest member value of the structures that are compared
MaxCopies == 1      \* wrappers made by cloning a wrapper
MaxAttrs  == 2      \* attributes on a type that derives DropByValue
MaxArgs   == 2      \* arguments of a DropByValue attribute
MaxVisFields == 2   \* fields of a type that derives DropByValue

\* the values user code constructs come first, the clones after them
Values == 1..(NumValues + MaxCopies)
\* the wrappers made by wrapping and by teardown come first, the clones after
Cells  == 1..(MaxCells + MaxCopies)
\* the values user code constructs and the slots every wrapper and handle
\* but a clone is stored in
Originals == 1..NumValues
Slots == 1..MaxCells
\* two distinguishable contents of the members (opaque payloads)
Vals   == {"a", "b"}
\* the members of the inner structure (lib.rs:230 ReturnToSenderInner(T, Rc<..>))
Fields == {"f0", "f1"}
\* what the user's drop_move does: any code at all, or the unconditional
\* "into_outer and let the result drop" finalizer the documentation warns about
Kinds  == {"Generic", "Reconstitute"}
\* the finalizers the crate itself defines: the trait's default body, DropGuard's
\* and the test suite's ReturnToSender; and one that mutates external state and
\* then extracts the members
AllKinds == Kinds \cup {"Default", "DropGuard", "ReturnToSender", "MutateFirst", "Legacy"}
\* the members a structure of kind k has (DropGuardInner has the one member func)
FieldsOf(k) == IF k = "DropGuard" THEN {"f0"} ELSE Fields
\* the structures that are compared: two members, each an integer
Members == (0..MaxField) \X (0..MaxField)

VARIABLES
    kind,           \* kind[v]: "None" before v is constructed, else its finalizer
    inner,          \* inner[v]: the bare inner structure T holding v, if any
    cells,          \* cells[c]: a DropMoveWrapper<T> (ManuallyDrop<T> storage)
    handles,        \* handles[c]: the DropHandle<T> whose storage holds wrapper c
    stack,          \* running drop_move invocations, innermost last
    aborted,        \* a panic escaped a destructor during unwinding
    released,       \* released[v][f]: times field f of v was torn down
    dropMoveCalls,  \* dropMoveCalls[v]: times drop_move was invoked for v
    wrapped,        \* wrapped[v]: times user code was handed a Holding wrapper of v
    counter,        \* the integer the guarded functions increment
    fired,          \* fired[v]: times the function guarded as v was called by value
    plain,          \* times a guarded function was called in place, and through a borrow
    list,           \* the destination list ReturnToSender pushes to
    log,            \* the external mutations of MutateFirst structures, in order
    lhs,            \* the two structures handed to the comparison operators
    rhs,
    verdict,        \* what the comparisons of lhs and rhs returned, once computed
    ast,            \* the type definition handed to derive(DropByValue)
    out             \* what the derive made of it, once it ran

effects == <<counter, fired, plain, list>>
compared == <<lhs, rhs, verdict>>
derive == <<ast, out>>
vars == <<kind, inner, cells, handles, stack, aborted, released, dropMoveCalls, wrapped,
          effects, log, compared, derive>>

\* ------------------------------------------------------------ initial state
NoInner  == [present |-> FALSE, owner |-> 0, data |-> "a", have |-> {}]
FreeCell == [st |-> "Free", loc |-> "free", owner |-> 0, val |-> 0, data |-> "a",
             takes |-> 0, dispatched |-> 0, via |-> "none", outcome |-> "none"]
FreeHandle == [st |-> "Free", loc |-> "free", owner |-> 0, takes |-> 0,
               origin |-> "none", conv |-> "none", dropped |-> FALSE]

NoVerdict == [computed |-> FALSE]
\* no type definition has been handed to the derive
NoAst == [attrs |-> << >>, vis |-> [tag |-> "Inherited", path |-> ""],
          body |-> "Struct", fields |-> << >>]
NoOut == [status |-> "none"]

\* nothing has been constructed, called, pushed or compared yet
InitWrappers ==
    /\ kind = [v \in Values |-> "None"]
    /\ inner = [v \in Values |-> NoInner]
    /\ cells = [c \in Cells |-> FreeCell]
    /\ handles = [c \in Cells |-> FreeHandle]
    /\ stack = << >>
    /\ aborted = FALSE
    /\ released = [v \in Values |-> [f \in Fields |-> 0]]
    /\ dropMoveCalls = [v \in Values |-> 0]
    /\ wrapped = [v \in Values |-> 0]
    /\ counter = 0
    /\ fired = [v \in Values |-> 0]
    /\ plain = [direct |-> 0, borrowed |-> 0]
    /\ list = << >>
    /\ log = << >>

Init ==
    /\ InitWrappers
    /\ lhs = <<0, 0>> /\ rhs = <<0, 0>>
    /\ verdict = NoVerdict
    /\ ast = NoAst /\ out = NoOut

\* ------------------------------------------------------------------ helpers
Depth == Len(stack)
Unwinding == Depth > 0 /\ stack[Depth].unwinding
\* the finalizer whose code is running (top-level user code is Generic)
RunningKind == IF Depth = 0 THEN "Generic" ELSE kind[stack[Depth].val]
\* user code may take an ordinary step
UserStep == ~aborted /\ ~Unwinding /\ RunningKind = "Generic"
\* the MutateFirst finalizer has made its own mutation in every call so far
Mutated(v) ==
    Cardinality({i \in 1..Len(log) : log[i] = [val |-> v, by |-> "finalizer"]})
        = dropMoveCalls[v]
\* what the body of the running drop_move does with what it owns; top-level
\* code and a Generic drop_move do anything
Permits(op) ==
    CASE RunningKind = "Generic" -> TRUE
      [] RunningKind = "Reconstitute" -> op = "into_outer"
      [] RunningKind = "Default" -> op = "drop_handle"
      [] RunningKind = "DropGuard" -> op \in {"into_inner", "call"}
      [] RunningKind = "ReturnToSender" ->
            \/ op \in {"into_inner", "push"}
            \/ op = "drop_inner" /\ inner[stack[Depth].val].have = {"f1"}
      [] RunningKind = "MutateFirst" ->
            Mutated(stack[Depth].val) /\ op \in {"into_inner", "consume", "drop_inner"}

FreeCells == {c \in Slots : cells[c].st = "Free"}
NewCell == CHOOSE c \in FreeCells : \A c2 \in FreeCells : c <= c2

\* what the running frame owns (dropped at scope end / during unwinding)
OwnsInner(v) == inner[v].present /\ inner[v].owner = Depth
OwnsCell(c) == cells[c].loc = "user" /\ cells[c].owner = Depth
OwnsHandle(c) == handles[c].loc = "user" /\ handles[c].owner = Depth
OwnsNothing ==
    /\ \A v \in Values : ~OwnsInner(v)
    /\ \A c \in Cells : ~OwnsCell(c) /\ ~OwnsHandle(c)

\* per-field teardown of the members still in an inner structure
ReleaseFields(rel, v, fs) ==
    [rel EXCEPT ![v] = [f \in Fields |-> IF f \in fs THEN @[f] + 1 ELSE @[f]]]

\* the members of a MutateFirst structure mutate external state as they are
\* torn down, in declaration order
TornDown(v, fs) ==
    (IF "f0" \in fs THEN <<[val |-> v, by |-> "f0"]>> ELSE << >>)
        \o (IF "f1" \in fs THEN <<[val |-> v, by |-> "f1"]>> ELSE << >>)
Logged(v, fs) == IF kind[v] = "MutateFirst" THEN log \o TornDown(v, fs) ELSE log

\* ------------------------------------------------ DropMoveWrapper (the cell)
\* ManuallyDrop::take: relocate the contents out of the storage
DropMoveWrapper_take(cs, c) ==
    [cs EXCEPT ![c].st = "Released", ![c].takes = @ + 1, ![c].data = "a"]

\* (mutant) the wrapper is built around a default inner structure, not around x
DropMoveWrapper_new_Default(cs, c, v, d, where, who) ==
    [cs EXCEPT ![c] = [FreeCell EXCEPT !.st = "Holding", !.loc = where,
                                       !.owner = who, !.val = v]]

\* a fresh Holding wrapper around (v, d), stored in slot c
DropMoveWrapper_new(cs, c, v, d, where, who) ==
    [cs EXCEPT ![c] = [FreeCell EXCEPT !.st = "Holding", !.loc = where,
                                       !.owner = who, !.val = v, !.data = d]]

\* (mutant) mem::forget(self_) is left out: the emptied wrapper stays owned and
\* its Drop still runs
DropMoveWrapper_into_inner_NoForget(cs, c) ==
    [DropMoveWrapper_take(cs, c) EXCEPT ![c].via = "into_inner"]

\* take, then mem::forget(self_): the wrapper's Drop never runs
DropMoveWrapper_into_inner(cs, c) ==
    [DropMoveWrapper_take(cs, c) EXCEPT ![c].loc = "gone", ![c].owner = 0,
                                         ![c].via = "into_inner"]

\* the inner structure as handed to its new owner
OwnedInner(k, d) ==
    [present |-> TRUE, owner |-> Depth, data |-> d, have |-> FieldsOf(k)]

\* user code builds the inner structure from field values
Construct(v, x, k) ==
    /\ UserStep /\ Depth = 0
    /\ v <= NumValues
    /\ kind[v] = "None"
    /\ \A u \in Values : u < v => kind[u] # "None"
    /\ kind' = [kind EXCEPT ![v] = k]
    /\ inner' = [inner EXCEPT ![v] = OwnedInner(k, x)]
    /\ UNCHANGED <<cells, handles, stack, aborted, released, dropMoveCalls, wrapped,
                 effects, log, compared, derive>>

\* Inner -> Outer (From): Self(DropMoveWrapper::new(x))
Wrap(v) ==
    /\ UserStep
    /\ OwnsInner(v) /\ inner[v].have = FieldsOf(kind[v])
    /\ FreeCells # {}
    /\ cells' = DropMoveWrapper_new(cells, NewCell, v, inner[v].data, "user", Depth)
    /\ inner' = [inner EXCEPT ![v] = NoInner]
    /\ wrapped' = [wrapped EXCEPT ![v] = @ + 1]
    /\ UNCHANGED <<kind, handles, stack, aborted, released, dropMoveCalls, effects, log, compared, derive>>

\* Outer -> Inner (From): DropMoveWrapper::into_inner(x.0)
Unwrap(c) ==
    /\ UserStep
    /\ OwnsCell(c)
    /\ cells' = DropMoveWrapper_into_inner(cells, c)
    /\ inner' = [inner EXCEPT ![cells[c].val] = OwnedInner(kind[cells[c].val], cells[c].data)]
    /\ UNCHANGED <<kind, handles, stack, aborted, released, dropMoveCalls, wrapped,
                 effects, log, compared, derive>>

\* the value and the wrapper slot the next clone gets
FreeCopies == {v \in Values : v > NumValues /\ kind[v] = "None"}
FreeCopyCells == {c \in Cells : c > MaxCells /\ cells[c].st = "Free"}
NewCopy == CHOOSE v \in FreeCopies : \A u \in FreeCopies : v <= u
NewCopyCell == CHOOSE c \in FreeCopyCells : \A d \in FreeCopyCells : c <= d

\* (mutant) the wrapper is copied bit by bit: the copy holds the same inner
\* structure as the original, not a clone of it
DropMoveWrapper_clone_Bitwise(c) ==
    /\ UserStep
    /\ OwnsCell(c)
    /\ FreeCopies # {} /\ FreeCopyCells # {}
    /\ cells' = DropMoveWrapper_new(cells, NewCopyCell, cells[c].val, cells[c].data,
                                    "user", Depth)
    /\ wrapped' = [wrapped EXCEPT ![cells[c].val] = @ + 1]
    /\ UNCHANGED <<kind, inner, handles, stack, aborted, released, dropMoveCalls,
                   effects, log, compared, derive>>

\* #[derive(Clone)]: DropMoveWrapper(self.0.clone()), a new wrapper around a
\* clone of the inner structure, which is a value of its own
DropMoveWrapper_clone(c) ==
    /\ UserStep
    /\ OwnsCell(c)
    /\ FreeCopies # {} /\ FreeCopyCells # {}
    /\ kind' = [kind EXCEPT ![NewCopy] = kind[cells[c].val]]
    /\ cells' = DropMoveWrapper_new(cells, NewCopyCell, NewCopy, cells[c].data,
                                    "user", Depth)
    /\ wrapped' = [wrapped EXCEPT ![NewCopy] = 1]
    /\ UNCHANGED <<inner, handles, stack, aborted, released, dropMoveCalls,
                   effects, log, compared, derive>>

\* DerefMut for DropMoveWrapper: a member is overwritten in place
DropMoveWrapper_deref_mut(c, x) ==
    /\ UserStep
    /\ OwnsCell(c) /\ cells[c].data # x
    /\ cells' = [cells EXCEPT ![c].data = x]
    /\ UNCHANGED <<kind, inner, handles, stack, aborted, released, dropMoveCalls, wrapped,
                 effects, log, compared, derive>>

\* ------------------------------------------------------------- DropHandle
\* From<T> for DropHandle<T>: Self(ManuallyDrop::new(t.into())), the inner
\* value is wrapped in a new outer structure that the handle's storage holds
DropHandle_from_cells(cs, c2, v, d) == DropMoveWrapper_new(cs, c2, v, d, "handle", 0)

DropHandle_from_handles(hs, c2, who, org) ==
    [hs EXCEPT ![c2] = [FreeHandle EXCEPT !.st = "Holding", !.loc = "user",
                                          !.owner = who, !.origin = org]]

\* ManuallyDrop::take on the handle's storage
DropHandle_take(hs, h) == [hs EXCEPT ![h].st = "Taken", ![h].takes = @ + 1]

\* DropMove::drop_move(drop_ref) is entered with the handle built from (v, d);
\* cs is the wrapper storage as the destructor left it
drop_move(cs, hs, c, v, d) ==
    /\ cells' = [DropHandle_from_cells(cs, NewCell, v, d) EXCEPT
                    ![c].dispatched = @ + 1, ![c].outcome = "running"]
    /\ handles' = DropHandle_from_handles(hs, NewCell, Depth + 1, "drop")
    /\ stack' = Append(stack, [val |-> v, handle |-> NewCell, cell |-> c,
                               unwinding |-> FALSE])
    /\ dropMoveCalls' = [dropMoveCalls EXCEPT ![v] = @ + 1]

\* (mutant) drop_move is called with a copy read out of the storage, which is
\* left Holding
DropMoveWrapper_drop_NoTake(c) ==
    /\ ~aborted
    /\ OwnsCell(c)
    /\ FreeCells # {}
    /\ drop_move([cells EXCEPT ![c].loc = "gone", ![c].owner = 0, ![c].via = "drop"],
                 handles, c, cells[c].val, cells[c].data)
    /\ UNCHANGED <<kind, inner, aborted, released, wrapped, effects, log, compared, derive>>

\* (mutant) the wrapper tears the members down itself (ManuallyDrop::drop)
\* and never calls drop_move
DropMoveWrapper_drop_NoDispatch(c) ==
    /\ ~aborted
    /\ OwnsCell(c)
    /\ cells' = [DropMoveWrapper_take(cells, c) EXCEPT
                    ![c].loc = "gone", ![c].owner = 0, ![c].via = "drop"]
    /\ released' = ReleaseFields(released, cells[c].val, FieldsOf(kind[cells[c].val]))
    /\ UNCHANGED <<kind, inner, handles, stack, aborted, dropMoveCalls, wrapped,
                 effects, log, compared, derive>>

\* (mutant) the wrapper tears the members down itself (ManuallyDrop::drop)
\* before it calls drop_move with what it read out of the storage
DropMoveWrapper_drop_EagerTeardown(c) ==
    /\ ~aborted
    /\ OwnsCell(c)
    /\ FreeCells # {}
    /\ drop_move([DropMoveWrapper_take(cells, c) EXCEPT
                     ![c].loc = "gone", ![c].owner = 0, ![c].via = "drop"],
                 handles, c, cells[c].val, cells[c].data)
    /\ released' = ReleaseFields(released, cells[c].val, FieldsOf(kind[cells[c].val]))
    /\ log' = Logged(cells[c].val, FieldsOf(kind[cells[c].val]))
    /\ UNCHANGED <<kind, inner, aborted, wrapped, effects, compared, derive>>

\* Drop for DropMoveWrapper: take, build the handle, call drop_move with it
DropMoveWrapper_drop(c) ==
    /\ ~aborted
    /\ OwnsCell(c)
    /\ FreeCells # {}
    /\ drop_move([DropMoveWrapper_take(cells, c) EXCEPT
                     ![c].loc = "gone", ![c].owner = 0, ![c].via = "drop"],
                 handles, c, cells[c].val, cells[c].data)
    /\ UNCHANGED <<kind, inner, aborted, released, wrapped, effects, log, compared, derive>>

\* (mutant) the handle is built from a copy: the caller keeps the inner structure
DropHandle_from_Copy(v) ==
    /\ UserStep
    /\ OwnsInner(v) /\ inner[v].have = FieldsOf(kind[v])
    /\ FreeCells # {}
    /\ cells' = DropHandle_from_cells(cells, NewCell, v, inner[v].data)
    /\ handles' = DropHandle_from_handles(handles, NewCell, Depth, "user")
    /\ UNCHANGED <<kind, inner, stack, aborted, released, dropMoveCalls, wrapped,
                 effects, log, compared, derive>>

\* user code converts an inner structure it owns into a handle
DropHandle_from(v) ==
    /\ UserStep
    /\ OwnsInner(v) /\ inner[v].have = FieldsOf(kind[v])
    /\ FreeCells # {}
    /\ cells' = DropHandle_from_cells(cells, NewCell, v, inner[v].data)
    /\ handles' = DropHandle_from_handles(handles, NewCell, Depth, "user")
    /\ inner' = [inner EXCEPT ![v] = NoInner]
    /\ UNCHANGED <<kind, stack, aborted, released, dropMoveCalls, wrapped, effects, log, compared, derive>>

\* (mutant) mem::forget(self_) is left out: the emptied handle stays owned and
\* its Drop still runs
DropHandle_into_outer_NoForget(h) ==
    /\ ~aborted /\ ~Unwinding /\ Permits("into_outer")
    /\ OwnsHandle(h) /\ handles[h].conv = "none"
    /\ handles' = [DropHandle_take(handles, h) EXCEPT ![h].conv = "outer"]
    /\ cells' = [cells EXCEPT ![h].loc = "user", ![h].owner = Depth]
    /\ wrapped' = [wrapped EXCEPT ![cells[h].val] = @ + 1]
    /\ UNCHANGED <<kind, inner, stack, aborted, released, dropMoveCalls, effects, log, compared, derive>>

\* (mutant) the handle is forgotten without taking: the caller gets nothing it
\* has to drop, the outer structure stays behind in the forgotten storage
DropHandle_into_outer_Leak(h) ==
    /\ ~aborted /\ ~Unwinding /\ Permits("into_outer")
    /\ OwnsHandle(h)
    /\ handles' = [handles EXCEPT ![h].loc = "gone", ![h].owner = 0, ![h].conv = "outer"]
    /\ UNCHANGED <<kind, inner, cells, stack, aborted, released, dropMoveCalls, wrapped,
                 effects, log, compared, derive>>

\* DropHandle::into_outer: take, mem::forget(self_), return the outer structure
DropHandle_into_outer(h) ==
    /\ ~aborted /\ ~Unwinding /\ Permits("into_outer")
    /\ OwnsHandle(h)
    /\ handles' = [DropHandle_take(handles, h) EXCEPT ![h].loc = "gone", ![h].owner = 0,
                                                  ![h].conv = "outer"]
    /\ cells' = [cells EXCEPT ![h].loc = "user", ![h].owner = Depth]
    /\ wrapped' = [wrapped EXCEPT ![cells[h].val] = @ + 1]
    /\ UNCHANGED <<kind, inner, stack, aborted, released, dropMoveCalls, effects, log, compared, derive>>

\* (mutant) the handle is taken from but not forgotten: it stays owned and its
\* Drop still runs
DropHandle_into_inner_KeepHandle(h) ==
    /\ ~aborted /\ ~Unwinding /\ Permits("into_inner")
    /\ OwnsHandle(h)
    /\ handles' = [DropHandle_take(handles, h) EXCEPT ![h].conv = "inner"]
    /\ cells' = DropMoveWrapper_into_inner(cells, h)
    /\ inner' = [inner EXCEPT ![cells[h].val] = OwnedInner(kind[cells[h].val], cells[h].data)]
    /\ UNCHANGED <<kind, stack, aborted, released, dropMoveCalls, wrapped, effects, log, compared, derive>>

\* (mutant) the outer structure is read out of but not forgotten: its Drop
\* runs as into_inner returns and dispatches drop_move once more
DropHandle_into_inner_Redrop(h) ==
    /\ ~aborted /\ ~Unwinding /\ Permits("into_inner")
    /\ OwnsHandle(h)
    /\ FreeCells # {}
    /\ drop_move([DropMoveWrapper_take(DropMoveWrapper_take(cells, h), h) EXCEPT
                     ![h].loc = "gone", ![h].owner = 0, ![h].via = "drop"],
                 [DropHandle_take(handles, h) EXCEPT ![h].loc = "gone", ![h].owner = 0,
                                                     ![h].conv = "inner"],
                 h, cells[h].val, cells[h].data)
    /\ inner' = [inner EXCEPT ![cells[h].val] = OwnedInner(kind[cells[h].val], cells[h].data)]
    /\ UNCHANGED <<kind, aborted, released, wrapped, effects, log, compared, derive>>

\* DropHandle::into_inner: Self::into_outer(self_).into()
DropHandle_into_inner(h) ==
    /\ ~aborted /\ ~Unwinding /\ Permits("into_inner")
    /\ OwnsHandle(h)
    /\ handles' = [DropHandle_take(handles, h) EXCEPT ![h].loc = "gone", ![h].owner = 0,
                                                  ![h].conv = "inner"]
    /\ cells' = DropMoveWrapper_into_inner(cells, h)
    /\ inner' = [inner EXCEPT ![cells[h].val] = OwnedInner(kind[cells[h].val], cells[h].data)]
    /\ UNCHANGED <<kind, stack, aborted, released, dropMoveCalls, wrapped, effects, log, compared, derive>>

\* (mutant) the handle has no Drop of its own: the ManuallyDrop storage is
\* discarded and the members are never torn down
DropHandle_drop_Leak(h) ==
    /\ ~aborted /\ Permits("drop_handle")
    /\ OwnsHandle(h)
    /\ handles' = [handles EXCEPT ![h].loc = "gone", ![h].owner = 0, ![h].dropped = TRUE]
    /\ UNCHANGED <<kind, inner, cells, stack, aborted, released, dropMoveCalls, wrapped,
                 effects, log, compared, derive>>

\* (mutant) the handle drops the outer structure it took instead of converting
\* it: the outer structure's Drop dispatches drop_move again
DropHandle_drop_Recurse(h) ==
    /\ ~aborted /\ Permits("drop_handle")
    /\ OwnsHandle(h)
    /\ FreeCells # {}
    /\ drop_move([DropMoveWrapper_take(cells, h) EXCEPT
                     ![h].loc = "gone", ![h].owner = 0, ![h].via = "drop"],
                 [DropHandle_take(handles, h) EXCEPT ![h].loc = "gone", ![h].owner = 0,
                                                     ![h].dropped = TRUE],
                 h, cells[h].val, cells[h].data)
    /\ UNCHANGED <<kind, inner, aborted, released, wrapped, effects, log, compared, derive>>

\* Drop for DropHandle: let _inner: T = take(self).into(); _inner is then
\* dropped member by member
DropHandle_drop(h) ==
    /\ ~aborted /\ Permits("drop_handle")
    /\ OwnsHandle(h)
    /\ handles' = [DropHandle_take(handles, h) EXCEPT ![h].loc = "gone", ![h].owner = 0,
                                                  ![h].dropped = TRUE]
    /\ cells' = DropMoveWrapper_into_inner(cells, h)
    /\ released' = ReleaseFields(released, cells[h].val, FieldsOf(kind[cells[h].val]))
    /\ log' = Logged(cells[h].val, FieldsOf(kind[cells[h].val]))
    /\ UNCHANGED <<kind, inner, stack, aborted, dropMoveCalls, wrapped, effects, compared, derive>>

\* (mutant) the borrow takes the outer structure out of the handle's storage
DropHandle_deref_mut_Take(h, x) ==
    /\ UserStep
    /\ OwnsHandle(h) /\ cells[h].data # x
    /\ cells' = [cells EXCEPT ![h].data = x]
    /\ handles' = DropHandle_take(handles, h)
    /\ UNCHANGED <<kind, inner, stack, aborted, released, dropMoveCalls, wrapped,
                   effects, log, compared, derive>>

\* DerefMut for DropHandle: forwards to the outer structure it holds
DropHandle_deref_mut(h, x) ==
    /\ UserStep
    /\ OwnsHandle(h) /\ cells[h].data # x
    /\ cells' = [cells EXCEPT ![h].data = x]
    /\ UNCHANGED <<kind, inner, handles, stack, aborted, released, dropMoveCalls, wrapped,
                 effects, log, compared, derive>>

\* ------------------------------------------------- user code on the members
\* one member is moved out of the inner structure and used up
\* (drop_guard.rs:13 calls inner.func, lib.rs:238 pushes inner.0)
ConsumeField(v, f) ==
    /\ ~aborted /\ ~Unwinding /\ Permits("consume")
    /\ OwnsInner(v) /\ f \in inner[v].have
    /\ inner' = [inner EXCEPT ![v] = IF @.have = {f} THEN NoInner
                                     ELSE [@ EXCEPT !.have = @ \ {f}]]
    /\ released' = ReleaseFields(released, v, {f})
    /\ log' = Logged(v, {f})
    /\ UNCHANGED <<kind, cells, handles, stack, aborted, dropMoveCalls, wrapped,
                 effects, compared, derive>>

\* the inner structure goes out of scope: its remaining members are dropped
DropInner(v) ==
    /\ ~aborted /\ Permits("drop_inner")
    /\ OwnsInner(v)
    /\ inner' = [inner EXCEPT ![v] = NoInner]
    /\ released' = ReleaseFields(released, v, inner[v].have)
    /\ log' = Logged(v, inner[v].have)
    /\ UNCHANGED <<kind, cells, handles, stack, aborted, dropMoveCalls, wrapped,
                 effects, compared, derive>>

\* -------------------------------------------------------------- DropGuard
\* (mutant) the function is moved out of the inner structure and dropped
\* without being called
DropGuard_call_Skip(v) ==
    /\ ~aborted /\ ~Unwinding /\ Permits("call")
    /\ kind[v] = "DropGuard" /\ OwnsInner(v) /\ "f0" \in inner[v].have
    /\ inner' = [inner EXCEPT ![v] = NoInner]
    /\ released' = ReleaseFields(released, v, {"f0"})
    /\ UNCHANGED <<kind, cells, handles, stack, aborted, dropMoveCalls, wrapped,
                   effects, log, compared, derive>>

\* (inner.func)(): the function is moved out of the inner structure and called
\* by value, which uses it up; it increments the counter
DropGuard_call(v) ==
    /\ ~aborted /\ ~Unwinding /\ Permits("call")
    /\ kind[v] = "DropGuard" /\ OwnsInner(v) /\ "f0" \in inner[v].have
    /\ inner' = [inner EXCEPT ![v] = NoInner]
    /\ released' = ReleaseFields(released, v, {"f0"})
    /\ counter' = counter + 1
    /\ fired' = [fired EXCEPT ![v] = @ + 1]
    /\ UNCHANGED <<kind, cells, handles, stack, aborted, dropMoveCalls, wrapped,
                   plain, list, log, compared, derive>>

\* (mutant) the borrow moves the function out of the storage to call it
DropGuard_deref_mut_call_Take(c) ==
    /\ UserStep
    /\ OwnsCell(c) /\ kind[cells[c].val] = "DropGuard"
    /\ plain.direct + plain.borrowed < MaxPlainCalls
    /\ cells' = DropMoveWrapper_take(cells, c)
    /\ counter' = counter + 1
    /\ plain' = [plain EXCEPT !.borrowed = @ + 1]
    /\ UNCHANGED <<kind, inner, handles, stack, aborted, released, dropMoveCalls,
                   wrapped, fired, list, log, compared, derive>>

\* guard.deref_mut()(): the function is called through the mutable borrow
\* DerefMut for DropGuard hands out (&mut self.0.func)
DropGuard_deref_mut_call(c) ==
    /\ UserStep
    /\ OwnsCell(c) /\ kind[cells[c].val] = "DropGuard"
    /\ plain.direct + plain.borrowed < MaxPlainCalls
    /\ counter' = counter + 1
    /\ plain' = [plain EXCEPT !.borrowed = @ + 1]
    /\ UNCHANGED <<kind, inner, cells, handles, stack, aborted, released, dropMoveCalls,
                   wrapped, fired, list, log, compared, derive>>

\* f(): the function is called in place before it is handed to a guard
Closure_call(v) ==
    /\ UserStep
    /\ OwnsInner(v) /\ kind[v] = "DropGuard"
    /\ plain.direct + plain.borrowed < MaxPlainCalls
    /\ counter' = counter + 1
    /\ plain' = [plain EXCEPT !.direct = @ + 1]
    /\ UNCHANGED <<kind, inner, cells, handles, stack, aborted, released, dropMoveCalls,
                   wrapped, fired, list, log, compared, derive>>

\* --------------------------------------------------------- ReturnToSender
\* (mutant) a clone of the payload is pushed, the payload itself stays in the
\* inner structure
ReturnToSender_push_Clone(v) ==
    /\ ~aborted /\ ~Unwinding
    /\ Depth > 0 /\ Permits("push")
    /\ kind[v] = "ReturnToSender" /\ OwnsInner(v) /\ inner[v].have = Fields
    /\ list' = Append(list, inner[v].data)
    /\ UNCHANGED <<kind, inner, cells, handles, stack, aborted, released, dropMoveCalls,
                   wrapped, counter, fired, plain, log, compared, derive>>

\* inner.1.borrow_mut().push(inner.0): the payload (member 0) is moved out of
\* the inner structure into the list that member 1 refers to
ReturnToSender_push(v) ==
    /\ ~aborted /\ ~Unwinding
    /\ Depth > 0 /\ Permits("push")
    /\ kind[v] = "ReturnToSender" /\ OwnsInner(v) /\ inner[v].have = Fields
    /\ list' = Append(list, inner[v].data)
    /\ inner' = [inner EXCEPT ![v].have = {"f1"}]
    /\ UNCHANGED <<kind, cells, handles, stack, aborted, released, dropMoveCalls,
                   wrapped, counter, fired, plain, log, compared, derive>>

\* ------------------------------- a drop_move with an effect of its own
\* the body of drop_move mutates external state before it touches its handle
MutateFirst_mutate ==
    /\ ~aborted /\ ~Unwinding
    /\ Depth > 0 /\ RunningKind = "MutateFirst"
    /\ ~Mutated(stack[Depth].val)
    /\ log' = Append(log, [val |-> stack[Depth].val, by |-> "finalizer"])
    /\ UNCHANGED <<kind, inner, cells, handles, stack, aborted, released, dropMoveCalls,
                   wrapped, effects, compared, derive>>

\* ------------------------------------------- comparisons of the wrappers
\* the derived impls of the inner structure go member by member, in order
Member_cmp(x, y) == IF x < y THEN "Less" ELSE IF x = y THEN "Equal" ELSE "Greater"
Inner_eq(a, b) == a[1] = b[1] /\ a[2] = b[2]
Inner_cmp(a, b) ==
    IF Member_cmp(a[1], b[1]) # "Equal" THEN Member_cmp(a[1], b[1])
    ELSE Member_cmp(a[2], b[2])
\* Hash feeds the members to the hasher, in order
Inner_hash(a, state) == state \o <<a[1], a[2]>>

\* ManuallyDrop<T> is a structure around the value; its impls forward to T's
ManuallyDrop_new(t) == [value |-> t]
ManuallyDrop_eq(x, y) == Inner_eq(x.value, y.value)
ManuallyDrop_cmp(x, y) == Inner_cmp(x.value, y.value)
ManuallyDrop_hash(x, state) == Inner_hash(x.value, state)

\* DropMoveWrapper<T>(ManuallyDrop<T>): a tuple structure with the member .0
DropMoveWrapper_of(t) == <<ManuallyDrop_new(t)>>

\* (mutant) equality looks at the first member of the inner structure only
DropMoveWrapper_eq_FirstOnly(x, y) == x[1].value[1] = y[1].value[1]

\* #[derive(PartialEq, Eq, PartialOrd, Ord, Hash)]: member .0 against member .0
DropMoveWrapper_eq(x, y) == ManuallyDrop_eq(x[1], y[1])
DropMoveWrapper_cmp(x, y) == ManuallyDrop_cmp(x[1], y[1])
DropMoveWrapper_partial_cmp(x, y) == [some |-> ManuallyDrop_cmp(x[1], y[1])]
DropMoveWrapper_hash(x, state) == ManuallyDrop_hash(x[1], state)

\* both structures are wrapped and the wrappers are compared and hashed
Compare ==
    /\ ~verdict.computed
    /\ LET x == DropMoveWrapper_of(lhs)
           y == DropMoveWrapper_of(rhs)
       IN verdict' = [computed |-> TRUE,
                      eq |-> DropMoveWrapper_eq(x, y),
                      cmp |-> DropMoveWrapper_cmp(x, y),
                      partial_cmp |-> DropMoveWrapper_partial_cmp(x, y),
                      hash_lhs |-> DropMoveWrapper_hash(x, << >>),
                      hash_rhs |-> DropMoveWrapper_hash(y, << >>)]
    /\ UNCHANGED <<kind, inner, cells, handles, stack, aborted, released, dropMoveCalls,
                   wrapped, effects, log, lhs, rhs, derive>>

\* ------------------------------------------------- end of a drop_move call
\* the user's drop_move fails: its locals are then dropped by unwinding
Panic ==
    /\ UserStep /\ Depth > 0
    /\ stack' = [stack EXCEPT ![Depth].unwinding = TRUE]
    /\ UNCHANGED <<kind, inner, cells, handles, aborted, released, dropMoveCalls, wrapped,
                 effects, log, compared, derive>>

\* drop_move is over (returned, or unwound): every local of the frame is gone.
\* A panic goes on into the caller; out of a destructor that unwinding itself
\* ran, it aborts the process.
DropMoveReturn ==
    /\ ~aborted /\ Depth > 0
    /\ OwnsNothing
    /\ LET rest == SubSeq(stack, 1, Depth - 1)
           failed == stack[Depth].unwinding
       IN /\ stack' = IF failed /\ Depth > 1
                      THEN [rest EXCEPT ![Depth - 1].unwinding = TRUE]
                      ELSE rest
          /\ aborted' = (failed /\ Depth > 1 /\ stack[Depth - 1].unwinding)
          /\ cells' = [cells EXCEPT ![stack[Depth].cell].outcome =
                                        IF failed THEN "failed" ELSE "returned"]
    /\ UNCHANGED <<kind, inner, handles, released, dropMoveCalls, wrapped, effects, log, compared, derive>>

\* ------------------------------------- DropByValueWrapper (legacy variant)
\* DropByValueWrapper(ManuallyDrop::new(t)): a wrapper around (v, d) in slot c
DropByValueWrapper_new(cs, c, v, d, who) ==
    [cs EXCEPT ![c] = [FreeCell EXCEPT !.st = "Holding", !.loc = "user",
                                       !.owner = who, !.val = v, !.data = d]]

\* From<T> for DropByValueWrapper<T>: DropByValueWrapper::new(t)
DropByValueWrapper_from(v) ==
    /\ UserStep
    /\ kind[v] = "Legacy"
    /\ OwnsInner(v) /\ inner[v].have = FieldsOf(kind[v])
    /\ FreeCells # {}
    /\ cells' = DropByValueWrapper_new(cells, NewCell, v, inner[v].data, Depth)
    /\ inner' = [inner EXCEPT ![v] = NoInner]
    /\ wrapped' = [wrapped EXCEPT ![v] = @ + 1]
    /\ UNCHANGED <<kind, handles, stack, aborted, released, dropMoveCalls, effects, log, compared, derive>>

\* DerefMut for DropByValueWrapper: a member is overwritten in place
DropByValueWrapper_deref_mut(c, x) ==
    /\ UserStep
    /\ OwnsCell(c) /\ kind[cells[c].val] = "Legacy" /\ cells[c].data # x
    /\ cells' = [cells EXCEPT ![c].data = x]
    /\ UNCHANGED <<kind, inner, handles, stack, aborted, released, dropMoveCalls, wrapped,
                   effects, log, compared, derive>>

\* ManuallyDrop::into_inner(self_.0): the contents are moved out of the wrapper,
\* which was passed by value and is gone
ManuallyDrop_into_inner(cs, c, how) ==
    [cs EXCEPT ![c].st = "Released", ![c].takes = @ + 1, ![c].data = "a",
               ![c].loc = "gone", ![c].owner = 0, ![c].via = how]

\* Destructure for DropByValueWrapper: the caller gets the inner structure
Destructure_destructure(c) ==
    /\ UserStep
    /\ OwnsCell(c) /\ kind[cells[c].val] = "Legacy"
    /\ cells' = ManuallyDrop_into_inner(cells, c, "destructure")
    /\ inner' = [inner EXCEPT ![cells[c].val] = OwnedInner(kind[cells[c].val], cells[c].data)]
    /\ UNCHANGED <<kind, handles, stack, aborted, released, dropMoveCalls, wrapped,
                   effects, log, compared, derive>>

\* the destructure generated for the outer type: ptr::read out of the wrapper
\* through deref_mut, mem::forget(self_), return what was read
Generated_destructure(c) ==
    /\ UserStep
    /\ OwnsCell(c) /\ kind[cells[c].val] = "Legacy"
    /\ cells' = [DropMoveWrapper_take(cells, c) EXCEPT
                    ![c].loc = "gone", ![c].owner = 0, ![c].via = "read_forget"]
    /\ inner' = [inner EXCEPT ![cells[c].val] = OwnedInner(kind[cells[c].val], cells[c].data)]
    /\ UNCHANGED <<kind, handles, stack, aborted, released, dropMoveCalls, wrapped,
                   effects, log, compared, derive>>

\* (mutant) the wrapper holds its contents directly: dropping it tears the
\* members down
DropByValueWrapper_drop_Members(c) ==
    /\ UserStep
    /\ OwnsCell(c) /\ kind[cells[c].val] = "Legacy"
    /\ cells' = [DropMoveWrapper_take(cells, c) EXCEPT
                    ![c].loc = "gone", ![c].owner = 0, ![c].via = "drop"]
    /\ released' = ReleaseFields(released, cells[c].val, FieldsOf(kind[cells[c].val]))
    /\ UNCHANGED <<kind, inner, handles, stack, aborted, dropMoveCalls, wrapped,
                   effects, log, compared, derive>>

\* a DropByValueWrapper goes out of scope. It has no Drop of its own and its
\* one field is a ManuallyDrop, whose drop does nothing: the contents stay in
\* the storage, which nobody owns any more
DropByValueWrapper_drop(c) ==
    /\ UserStep
    /\ OwnsCell(c) /\ kind[cells[c].val] = "Legacy"
    /\ cells' = [cells EXCEPT ![c].loc = "gone", ![c].owner = 0, ![c].via = "drop"]
    /\ UNCHANGED <<kind, inner, handles, stack, aborted, released, dropMoveCalls, wrapped,
                   effects, log, compared, derive>>

\* ------------------------------------------------- derive(DropByValue)
\* Option<T>
None == << >>
Some(x) == <<x>>
\* the sequences over S of at most n elements
SeqsUpTo(S, n) == UNION {[1..k -> S] : k \in 0..n}

\* syn::Visibility; a restricted visibility names a path
Paths == {"self", "super"}
Vis(tag, path) == [tag |-> tag, path |-> path]
Visibilities ==
    {Vis("Public", ""), Vis("Crate", ""), Vis("Inherited", "")}
        \cup {Vis("Restricted", p) : p \in Paths}

\* syn::NestedMetaItem, the arguments of an attribute: key = literal, a word or
\* list, or a bare literal
Item(form, key, lit) == [form |-> form, key |-> key, lit |-> lit]
Items ==
    {Item("NameValue", k, "Str") : k \in {"name", "vis", "doc"}}
        \cup {Item("NameValue", k, "Int") : k \in {"name", "doc"}}
        \cup {Item("Word", "derive", ""), Item("Literal", "", "Str")}
\* the string a key = "string" argument carries, as tokens
Value(item) ==
    CASE item.key = "name" -> <<"Outer">>
      [] item.key = "vis" -> <<"pub">>
      [] OTHER -> <<"text">>

\* syn::Attribute: #[DropByValue(args)], #[DropByValue], #[derive(..)]
AttrKinds == {"DropByValue(..)", "DropByValue", "derive(..)"}
Attribute(k, args) ==
    CASE k = "DropByValue(..)" ->
            [style |-> "Outer", form |-> "List", name |-> "DropByValue", args |-> args]
      [] k = "DropByValue" ->
            [style |-> "Outer", form |-> "Word", name |-> "DropByValue", args |-> << >>]
      [] OTHER ->
            [style |-> "Outer", form |-> "List", name |-> "derive", args |-> << >>]
\* the attributes of a type: every #[DropByValue(..)] among them has arguments args
Attributes(ks, args) == [i \in 1..Len(ks) |-> Attribute(ks[i], args)]

\* the macro panicked: no code is generated
Panicked(msg) ==
    [status |-> "panicked", panic |-> msg, name |-> << >>, visibility |-> << >>,
     attrs |-> << >>, destructure_vis |-> Vis("Inherited", "")]

\* find the DropByValue attribute in the list and return its arguments
get_drop_by_value_attr(attrs) ==
    LET attr_iter == SelectSeq(attrs, LAMBDA x : x.form = "List" /\ x.name = "DropByValue")
        exactly_one_msg == "Drop by value types must exactly one attribute \"DropByValue\"."
    IN  IF Len(attr_iter) = 0 THEN [panic |-> exactly_one_msg, args |-> << >>]
        ELSE IF Len(attr_iter) > 1 THEN [panic |-> exactly_one_msg, args |-> << >>]
        ELSE IF attr_iter[1].style = "Outer" /\ attr_iter[1].form = "List"
             THEN [panic |-> "", args |-> attr_iter[1].args]
             ELSE [panic |-> "Drop by value attribute must be of the form \"#[DropByValue(...)]\".",
                   args |-> << >>]

\* (mutant) a second name replaces the first
drop_by_value_item_LastWins(item, st) ==
    IF item.form = "NameValue" /\ item.lit = "Str"
    THEN CASE item.key = "name" -> [st EXCEPT !.name = Some(Value(item))]
           [] item.key = "vis" ->
                IF st.visibility = None
                THEN [st EXCEPT !.visibility = Some(Value(item))]
                ELSE [st EXCEPT !.panic = "Cannot have multiple visibilities."]
           [] OTHER -> [st EXCEPT !.panic = "Unrecognized DropByValue attribute argument."]
    ELSE IF item.form \in {"NameValue", "Word", "List"}
         THEN [st EXCEPT !.attrs = Append(@, item)]
         ELSE [st EXCEPT !.panic = "Unrecognized DropByValue attribute argument."]

\* one turn of the loop over the arguments: name and vis are taken once each
\* from key = "string" arguments, any other such key and a bare literal are
\* rejected, every other meta item is kept as an attribute of the outer type
drop_by_value_item(item, st) ==
    IF item.form = "NameValue" /\ item.lit = "Str"
    THEN CASE item.key = "name" ->
                IF st.name = None
                THEN [st EXCEPT !.name = Some(Value(item))]
                ELSE [st EXCEPT !.panic = "Cannot have multiple names."]
           [] item.key = "vis" ->
                IF st.visibility = None
                THEN [st EXCEPT !.visibility = Some(Value(item))]
                ELSE [st EXCEPT !.panic = "Cannot have multiple visibilities."]
           [] OTHER -> [st EXCEPT !.panic = "Unrecognized DropByValue attribute argument."]
    ELSE IF item.form \in {"NameValue", "Word", "List"}
         THEN [st EXCEPT !.attrs = Append(@, item)]
         ELSE [st EXCEPT !.panic = "Unrecognized DropByValue attribute argument."]

\* the loop over the arguments; a panic ends it
RECURSIVE drop_by_value_items(_, _, _)
drop_by_value_items(attr, i, st) ==
    IF i > Len(attr) \/ st.panic # "" THEN st
    ELSE drop_by_value_items(attr, i + 1, drop_by_value_item(attr[i], st))

\* tokens_to_string of a visibility
tokens_to_string(v) ==
    CASE v.tag = "Public" -> <<"pub">>
      [] v.tag = "Crate" -> <<"pub", "(", "crate", ")">>
      [] v.tag = "Restricted" -> <<"pub", "(", v.path, ")">>
      [] OTHER -> << >>

\* (mutant) the first visibility wins
visibility_max_Left(x, y) == x

\* the arms of the match, in order
visibility_max(x, y) ==
    IF x.tag = "Public" THEN y
    ELSE IF y.tag = "Public" THEN x
    ELSE IF x.tag = "Crate" THEN y
    ELSE IF y.tag = "Crate" THEN x
    ELSE IF x.tag = "Inherited" THEN x
    ELSE IF y.tag = "Inherited" THEN y
    ELSE Vis("Inherited", "")

\* fields.iter().map(|f| &f.vis).fold(&ast.vis, visibility_max)
RECURSIVE fold(_, _, _)
fold(fields, i, acc) ==
    IF i > Len(fields) THEN acc
    ELSE fold(fields, i + 1, visibility_max(acc, fields[i]))

\* the visibility of the wrapper member of the generated outer type
destructure_vis(a) == IF a.body = "Struct" THEN fold(a.fields, 1, a.vis) ELSE a.vis

\* the derive: the arguments are read, then the outer type is generated
drop_by_value(a) ==
    LET attr == get_drop_by_value_attr(a.attrs)
        st == drop_by_value_items(attr.args, 1,
                  [name |-> None, visibility |-> None, attrs |-> << >>, panic |-> ""])
    IN  IF attr.panic # "" THEN Panicked(attr.panic)
        ELSE IF st.panic # "" THEN Panicked(st.panic)
        ELSE IF st.name = None THEN Panicked("Drop by value type must have a name.")
        ELSE [status |-> "expanded", panic |-> "",
              name |-> st.name[1],
              visibility |-> IF st.visibility = None THEN tokens_to_string(a.vis)
                             ELSE st.visibility[1],
              attrs |-> st.attrs,
              destructure_vis |-> destructure_vis(a)]

\* the compiler expands the derive on the type definition
Derive ==
    /\ out.status = "none"
    /\ out' = drop_by_value(ast)
    /\ UNCHANGED <<kind, inner, cells, handles, stack, aborted, released, dropMoveCalls,
                   wrapped, effects, log, compared, ast>>

\* ---------------------------------------------------------- specification
\* the operations of the interface and the user code between them
Interface ==
    \/ \E v \in Originals : Wrap(v)
    \/ \E c \in Slots : Unwrap(c)
    \/ \E c \in Slots, x \in Vals : DropMoveWrapper_deref_mut(c, x)
    \/ \E c \in Slots : DropMoveWrapper_drop(c)
    \/ \E v \in Originals : DropHandle_from(v)
    \/ \E h \in Slots : DropHandle_into_outer(h)
    \/ \E h \in Slots : DropHandle_into_inner(h)
    \/ \E h \in Slots : DropHandle_drop(h)
    \/ \E h \in Slots, x \in Vals : DropHandle_deref_mut(h, x)
    \/ \E v \in Originals, f \in Fields : ConsumeField(v, f)
    \/ \E v \in Originals : DropInner(v)
    \/ DropMoveReturn

\* ... and a drop_move written by the user may fail
Operation ==
    \/ Interface
    \/ Panic

\* every drop_move is arbitrary user code
Next ==
    \/ \E v \in Originals, x \in Vals : Construct(v, x, "Generic")
    \/ Operation

Spec == Init /\ [][Next]_vars

\* a type's drop_move is either arbitrary or the unconditional into_outer
NextFinalizers ==
    \/ \E v \in Originals, x \in Vals, k \in Kinds : Construct(v, x, k)
    \/ Operation

SpecFinalizers == Init /\ [][NextFinalizers]_vars

\* every drop_move is the trait's default body, mem::drop(self_)
NextDefault ==
    \/ \E v \in Originals, x \in Vals : Construct(v, x, "Default")
    \/ Interface

SpecDefault == Init /\ [][NextDefault]_vars

\* every value is a DropGuardInner around a function that increments the counter
NextGuard ==
    \/ \E v \in Originals, x \in Vals : Construct(v, x, "DropGuard")
    \/ Interface
    \/ \E v \in Originals : DropGuard_call(v)
    \/ \E c \in Slots : DropGuard_deref_mut_call(c)
    \/ \E v \in Originals : Closure_call(v)

SpecGuard == Init /\ [][NextGuard]_vars

\* one DropGuard is constructed; it and its clones are cloned, extracted from
\* and dropped
NextClone ==
    \/ \E x \in Vals : Construct(1, x, "DropGuard")
    \/ \E v \in Values : Wrap(v)
    \/ \E c \in Cells : Unwrap(c)
    \/ \E c \in Cells : DropMoveWrapper_clone(c)
    \/ \E c \in Cells, x \in Vals : DropMoveWrapper_deref_mut(c, x)
    \/ \E c \in Cells : DropMoveWrapper_drop(c)
    \/ \E h \in Cells : DropHandle_into_inner(h)
    \/ \E v \in Values : DropGuard_call(v)
    \/ \E v \in Values : DropInner(v)
    \/ DropMoveReturn

SpecClone == Init /\ [][NextClone]_vars

\* every value is a ReturnToSenderInner(payload, list)
NextSender ==
    \/ \E v \in Originals, x \in Vals : Construct(v, x, "ReturnToSender")
    \/ Interface
    \/ \E v \in Originals : ReturnToSender_push(v)

SpecSender == Init /\ [][NextSender]_vars

\* every drop_move first mutates external state, then takes the inner
\* structure out of its handle; the members mutate it as they are torn down
NextMutateFirst ==
    \/ \E v \in Originals, x \in Vals : Construct(v, x, "MutateFirst")
    \/ Interface
    \/ MutateFirst_mutate

SpecMutateFirst == Init /\ [][NextMutateFirst]_vars

\* any two inner structures of the domain are wrapped and compared
InitCompare ==
    /\ InitWrappers
    /\ lhs \in Members /\ rhs \in Members
    /\ verdict = NoVerdict
    /\ ast = NoAst /\ out = NoOut

NextCompare == Compare

SpecCompare == InitCompare /\ [][NextCompare]_vars

\* the legacy variant: inner structures are put into DropByValueWrappers, which
\* are destructured or dropped; user code uses up what it got back
NextLegacy ==
    \/ \E v \in Originals, x \in Vals : Construct(v, x, "Legacy")
    \/ \E v \in Originals : DropByValueWrapper_from(v)
    \/ \E c \in Slots, x \in Vals : DropByValueWrapper_deref_mut(c, x)
    \/ \E c \in Slots : Destructure_destructure(c)
    \/ \E c \in Slots : Generated_destructure(c)
    \/ \E c \in Slots : DropByValueWrapper_drop(c)
    \/ \E v \in Originals, f \in Fields : ConsumeField(v, f)
    \/ \E v \in Originals : DropInner(v)

SpecLegacy == Init /\ [][NextLegacy]_vars

\* the derive is run on a type with any attributes and any arguments
InitAttributes ==
    /\ InitWrappers
    /\ lhs = <<0, 0>> /\ rhs = <<0, 0>>
    /\ verdict = NoVerdict
    /\ ast \in {[attrs |-> Attributes(ks, args), vis |-> Vis("Public", ""),
                 body |-> "Struct", fields |-> <<Vis("Inherited", "")>>] :
                    ks \in SeqsUpTo(AttrKinds, MaxAttrs),
                    args \in SeqsUpTo(Items, MaxArgs)}
    /\ out = NoOut

NextAttributes == Derive

SpecAttributes == InitAttributes /\ [][NextAttributes]_vars

\* the derive is run on a well-attributed type of any visibility, with fields
\* of any visibilities
InitVisibility ==
    /\ InitWrappers
    /\ lhs = <<0, 0>> /\ rhs = <<0, 0>>
    /\ verdict = NoVerdict
    /\ ast \in {[attrs |-> Attributes(<<"DropByValue(..)">>,
                                      <<Item("NameValue", "name", "Str")>>),
                 vis |-> v, body |-> b, fields |-> fs] :
                    v \in Visibilities,
                    b \in {"Struct", "Enum"},
                    fs \in SeqsUpTo(Visibilities, MaxVisFields)}
    /\ ast.body = "Enum" => ast.fields = << >>
    /\ out = NoOut

NextVisibility == Derive

SpecVisibility == InitVisibility /\ [][NextVisibility]_vars

TypeOK ==
    /\ kind \in [Values -> AllKinds \cup {"None"}]
    /\ \A v \in Values : inner[v].data \in Vals /\ inner[v].have \subseteq Fields
    /\ \A c \in Cells : cells[c].st \in {"Free", "Holding", "Released"}
    /\ \A c \in Cells : handles[c].st \in {"Free", "Holding", "Taken"}
    /\ Depth <= MaxCells + MaxCopies
    /\ aborted \in BOOLEAN
\* ------------------------------------------------------------- the claims
Constructed(v) == kind[v] # "None"
\* the wrappers that hold v and that somebody still owns
LiveCells(v) ==
    {c \in Cells : /\ cells[c].val = v
                   /\ \/ cells[c].loc = "user"
                      \/ cells[c].loc = "handle" /\ handles[c].loc = "user"}
\* v's lifetime has ended: nothing that holds it is owned by anybody
Ended(v) == Constructed(v) /\ ~inner[v].present /\ LiveCells(v) = {}
\* how many owned places hold member f of v
Holders(v, f) ==
    Cardinality({c \in LiveCells(v) : cells[c].st = "Holding"})
        + (IF inner[v].present /\ f \in inner[v].have THEN 1 ELSE 0)

\* C1: every member of a value is torn down exactly once: never twice, a member
\* that was torn down is held nowhere, a member not yet torn down is held in
\* exactly one place, and once the value's lifetime has ended every member has
\* been torn down once
C1_ExactlyOnceRelease ==
    \A v \in Values : \A f \in Fields :
        /\ released[v][f] <= 1
        /\ Constructed(v) => released[v][f] + Holders(v, f) = 1
        /\ Ended(v) => released[v][f] = 1

\* a value that fell out of scope, was finalized and is gone
C1_Witness ==
    \E v \in Values : Ended(v) /\ dropMoveCalls[v] >= 1 /\ Depth = 0

\* C2 as stated: drop_move runs at most once per value
C2_Original == \A v \in Values : dropMoveCalls[v] <= 1

\* C2 amended: drop_move runs at most once per wrapper, and for a value at most
\* as often as user code was handed a Holding wrapper of it (by wrapping it or
\* by into_outer); into_inner never makes it run
C2_OncePerWrapper ==
    /\ \A c \in Cells : cells[c].dispatched <= 1
    /\ \A c \in Cells : cells[c].via = "into_inner" => cells[c].dispatched = 0
    /\ \A v \in Values : dropMoveCalls[v] <= wrapped[v]

\* the finalizer ran for a value and called into_outer on its handle
C2_Witness ==
    \E h \in Cells : /\ handles[h].origin = "drop" /\ handles[h].conv = "outer"
                     /\ dropMoveCalls[cells[h].val] = 2

\* C3: a step that drops an unconverted handle converts the outer structure it
\* holds to the inner one (the wrapper is taken and forgotten, never dropped),
\* tears every member down once and neither invokes drop_move nor changes the
\* call stack
C3_HandleDropDoesNotRecurse ==
    [][\A h \in Cells :
          (handles[h].loc = "user" /\ ~handles[h].dropped /\ handles'[h].dropped)
          => /\ handles[h].conv = "none"
             /\ dropMoveCalls' = dropMoveCalls
             /\ stack' = stack
             /\ cells'[h].st = "Released" /\ cells'[h].via = "into_inner"
             /\ cells'[h].dispatched = 0
             /\ released' = ReleaseFields(released, cells[h].val, Fields)]_vars

\* the finalizer dropped the handle it was given and is still running
C3_Witness ==
    /\ Depth > 0
    /\ handles[stack[Depth].handle].dropped
    /\ released[stack[Depth].val] = [f \in Fields |-> 1]
\* a step in which user code extracts the inner structure from wrapper c
Extracts(c) ==
    /\ cells[c].loc = "user" /\ cells[c].st = "Holding"
    /\ cells'[c].via = "into_inner"

\* C4: explicit extraction from a Holding wrapper releases the cell without
\* invoking drop_move or tearing anything down and hands the caller the inner
\* structure with its members unchanged; an extracted wrapper is gone, was taken
\* from once and never dispatches drop_move
C4_ExtractionSkipsFinalizer ==
    /\ [](\A c \in Cells : cells[c].via = "into_inner"
            => /\ cells[c].st = "Released" /\ cells[c].loc = "gone"
               /\ cells[c].takes = 1 /\ cells[c].dispatched = 0)
    /\ [][\A c \in Cells : Extracts(c)
            => /\ cells'[c].st = "Released"
               /\ dropMoveCalls' = dropMoveCalls /\ stack' = stack
               /\ released' = released
               /\ inner[cells[c].val] = NoInner
               /\ inner'[cells[c].val] = [present |-> TRUE, owner |-> Depth,
                                          data |-> cells[c].data, have |-> Fields]]_vars

\* a wrapper whose members had been overwritten in place was extracted, and
\* the caller holds those members
C4_Witness ==
    \E c \in Cells :
        /\ cells[c].via = "into_inner" /\ handles[c].st = "Free"
        /\ inner[cells[c].val].present /\ inner[cells[c].val].data = "b"
        /\ dropMoveCalls[cells[c].val] = 0

\* a step in which wrapper c, owned and Holding, falls out of scope
FallsOutOfScope(c) ==
    /\ cells[c].loc = "user" /\ cells[c].st = "Holding"
    /\ cells'[c].loc = "gone" /\ cells'[c].via # "into_inner"

\* C5: when a Holding wrapper falls out of scope its contents are taken, put in
\* a new handle and drop_move is entered with that handle; and drop_move is
\* entered in no other step
C5_OnlyTeardownDispatches ==
    /\ [][\A c \in Cells : FallsOutOfScope(c)
            => /\ cells'[c].st = "Released" /\ cells'[c].takes = 1
               /\ Len(stack') = Depth + 1
               /\ stack'[Depth + 1].val = cells[c].val
               /\ stack'[Depth + 1].cell = c
               /\ dropMoveCalls' = [dropMoveCalls EXCEPT ![cells[c].val] = @ + 1]
               /\ LET h == stack'[Depth + 1].handle
                  IN /\ handles[h].st = "Free"
                     /\ handles'[h].st = "Holding" /\ handles'[h].loc = "user"
                     /\ handles'[h].owner = Depth + 1
                     /\ cells'[h].st = "Holding" /\ cells'[h].loc = "handle"
                     /\ cells'[h].val = cells[c].val
                     /\ cells'[h].data = cells[c].data]_vars
    /\ [][(dropMoveCalls' # dropMoveCalls \/ Len(stack') > Depth)
            => \E c \in Cells : FallsOutOfScope(c)]_vars

\* a wrapper fell out of scope and its drop_move is running with the handle
C5_Witness ==
    /\ Depth = 1
    /\ cells[stack[1].cell].via = "drop"
    /\ handles[stack[1].handle].loc = "user"
    /\ cells[stack[1].handle].data = "b"

\* C6 as stated: every handle was built by the wrapper's teardown
C6_Original ==
    \A h \in Cells : handles[h].st # "Free" => handles[h].origin = "drop"

\* C6 amended: a handle is built either by the wrapper's teardown (one per
\* drop_move call) or by user code from an inner structure it owns (the From
\* conversion is public); either way it takes ownership: while the handle holds
\* a value, that value is in the Holding wrapper inside the handle and nowhere else
C6_HandleOwnsValue ==
    /\ \A h \in Cells : handles[h].st # "Free" => handles[h].origin \in {"drop", "user"}
    /\ \A v \in Values :
          Cardinality({h \in Cells : handles[h].origin = "drop" /\ cells[h].val = v})
              = dropMoveCalls[v]
    /\ \A h \in Cells : handles[h].loc = "user"
          => /\ handles[h].st = "Holding"
             /\ cells[h].st = "Holding" /\ cells[h].loc = "handle"
             /\ ~inner[cells[h].val].present
             /\ \A c \in Cells \ {h} :
                   cells[c].val = cells[h].val => cells[c].st # "Holding"

\* user code holds a handle that no teardown built
C6_Witness ==
    \E h \in Cells : handles[h].origin = "user" /\ handles[h].loc = "user"

Dispatched(v) == {h \in Cells : handles[h].origin = "drop" /\ cells[h].val = v}

\* C8 as stated: per value, at most one of the two outcomes is ever reached
C8_Original ==
    \A v \in Values :
        ~(/\ \E h \in Dispatched(v) : handles[h].conv # "none"
          /\ \E h \in Dispatched(v) : handles[h].dropped)

\* C8 amended: per handle (per dispatch), not per value. A handle is either
\* still owned or it has reached exactly one of the two outcomes, converted by
\* the finalizer or released by its own teardown, after a single take; a handle
\* built by a teardown is owned only while its drop_move is still running
C8_OneOutcomePerHandle ==
    \A h \in Cells : handles[h].st # "Free"
        => /\ ~(handles[h].conv # "none" /\ handles[h].dropped)
           /\ handles[h].loc = "gone" <=> (handles[h].conv # "none" \/ handles[h].dropped)
           /\ handles[h].loc = "gone" => handles[h].st = "Taken" /\ handles[h].takes = 1
           /\ handles[h].loc # "gone" => handles[h].st = "Holding" /\ handles[h].takes = 0
           /\ (handles[h].origin = "drop" /\ handles[h].loc # "gone")
                 => \E i \in 1..Depth : stack[i].handle = h /\ handles[h].owner = i

\* one value was dispatched twice: the first handle was converted by the
\* finalizer, the second released by its own teardown
C8_Witness ==
    \E v \in Values :
        /\ \E h \in Dispatched(v) : handles[h].conv = "outer"
        /\ \E h \in Dispatched(v) : handles[h].dropped

\* C9: into_outer consumes the handle (one take, forgotten) and hands the
\* caller the Holding outer structure with its members; when that structure
\* falls out of scope drop_move is entered for the same value again; and a
\* drop_move that unconditionally does so never returns
C9_IntoOuterReenters ==
    /\ [][\A h \in Cells : (handles[h].conv = "none" /\ handles'[h].conv = "outer")
            => /\ handles'[h].loc = "gone" /\ handles'[h].takes = 1
               /\ cells'[h].st = "Holding" /\ cells'[h].loc = "user"
               /\ cells'[h].owner = Depth
               /\ cells'[h].val = cells[h].val /\ cells'[h].data = cells[h].data
               /\ stack' = stack /\ released' = released]_vars
    /\ [][\A h \in Cells : (handles[h].conv = "outer" /\ FallsOutOfScope(h))
            => /\ Len(stack') = Depth + 1
               /\ stack'[Depth + 1].val = cells[h].val
               /\ dropMoveCalls'[cells[h].val] = dropMoveCalls[cells[h].val] + 1]_vars
    /\ [][Len(stack') < Depth => kind[stack[Depth].val] # "Reconstitute"]_vars

\* the unconditional finalizer is running inside itself for the same value
C9_Witness ==
    /\ Depth >= 2
    /\ stack[Depth].val = stack[Depth - 1].val
    /\ kind[stack[Depth].val] = "Reconstitute"
    /\ handles[stack[Depth - 1].handle].conv = "outer"

\* C10: the wrapper whose teardown called drop_move was emptied by one take
\* before the call: it is Released and gone while drop_move runs, and stays so,
\* taken from once and dispatched once, after drop_move returned or failed
C10_ReleasedBeforeFinalizer ==
    /\ \A i \in 1..Depth :
          /\ cells[stack[i].cell].outcome = "running"
          /\ cells[stack[i].cell].dispatched = 1
    /\ \A c \in Cells : cells[c].outcome # "none" => cells[c].dispatched = 1
    /\ \A c \in Cells : cells[c].dispatched >= 1
          => /\ cells[c].st = "Released" /\ cells[c].loc = "gone"
             /\ cells[c].takes = 1 /\ cells[c].dispatched = 1

\* a drop_move failed and the failure reached the top-level caller
C10_Witness ==
    /\ Depth = 0
    /\ \E c \in Cells : cells[c].outcome = "failed" /\ cells[c].st = "Released"

\* C11: the storage of every wrapper is relocated out of at most once, and of a
\* wrapper that is gone exactly once: by explicit extraction or by the
\* wrapper's teardown, never by both. A wrapper is Holding exactly until that
\* one take, and nobody owns a wrapper whose storage was emptied
C11_TakenExactlyOnce ==
    \A c \in Cells : cells[c].st # "Free"
        => /\ cells[c].takes <= 1
           /\ cells[c].st = "Holding" <=> cells[c].takes = 0
           /\ cells[c].st = "Released" <=> cells[c].takes = 1
           /\ cells[c].takes = 1 <=> cells[c].via \in {"into_inner", "drop"}
           /\ cells[c].via = "into_inner" => cells[c].dispatched = 0
           /\ cells[c].via = "drop" <=> cells[c].dispatched = 1
           /\ cells[c].st = "Released" <=> cells[c].loc = "gone"

\* one value went through two wrappers: the first was emptied by explicit
\* extraction, the second by its teardown
C11_Witness ==
    \E c, d \in Cells :
        /\ c # d /\ cells[c].val = cells[d].val
        /\ cells[c].via = "into_inner" /\ handles[c].st = "Free" /\ cells[c].takes = 1
        /\ cells[d].via = "drop" /\ cells[d].takes = 1

\* C12: with the default drop_move, dropping the outer structure is ordinary
\* teardown. While the default body runs nothing else runs inside it or after
\* a failure of it, and it is either about to drop its handle (no member torn
\* down yet) or has dropped it (every member torn down once, nothing left to
\* drop) and can return; no external state is touched; and when it returns, it
\* returns normally with every member torn down exactly once
C12_DefaultIsOrdinaryTeardown ==
    /\ [](\A i \in 1..Depth : kind[stack[i].val] = "Default"
            => LET v == stack[i].val
                   h == stack[i].handle
               IN /\ i = Depth /\ ~stack[i].unwinding /\ ~aborted
                  /\ dropMoveCalls[v] = Cardinality({c \in Cells :
                         cells[c].val = v /\ cells[c].via = "drop"})
                  /\ \/ /\ handles[h].loc = "user"
                        /\ released[v] = [f \in Fields |-> 0]
                        /\ ENABLED DropHandle_drop(h)
                     \/ /\ handles[h].dropped /\ handles[h].conv = "none"
                        /\ released[v] = [f \in Fields |-> 1]
                        /\ OwnsNothing
                        /\ ENABLED DropMoveReturn)
    /\ [](counter = 0 /\ list = << >> /\ log = << >>)
    /\ [][(Len(stack') < Depth /\ kind[stack[Depth].val] = "Default")
            => /\ cells'[stack[Depth].cell].outcome = "returned"
               /\ handles[stack[Depth].handle].dropped
               /\ released' = released
               /\ released[stack[Depth].val] = [f \in Fields |-> 1]]_vars

\* an outer structure with the default drop_move was dropped and is gone
C12_Witness ==
    /\ Depth = 0
    /\ \E c \in Cells : /\ cells[c].outcome = "returned"
                         /\ kind[cells[c].val] = "Default"
                         /\ released[cells[c].val] = [f \in Fields |-> 1]

\* the counter is the number of calls of guarded functions so far
CallsCounted ==
    LET SumFired[n \in 0..NumValues] ==
            IF n = 0 THEN 0 ELSE SumFired[n - 1] + fired[n]
    IN counter = plain.direct + plain.borrowed + SumFired[NumValues]

\* C13: dropping a guard calls its function exactly once. The function has not
\* been called by value when drop_move is entered and until drop_move calls it;
\* entering drop_move and taking the inner structure out of the handle leave
\* the counter alone; inside drop_move the counter changes only by the one
\* call, which adds 1; and drop_move returns normally with the function called
C13_GuardCallsOnce ==
    /\ [](CallsCounted)
    /\ [](\A i \in 1..Depth : kind[stack[i].val] = "DropGuard"
            => /\ i = Depth /\ ~stack[i].unwinding
               /\ (handles[stack[i].handle].loc = "user" \/ inner[stack[i].val].present)
                     <=> fired[stack[i].val] = 0
               /\ fired[stack[i].val] <= 1)
    /\ [][Len(stack') > Depth => counter' = counter /\ fired' = fired]_vars
    /\ [][(Depth > 0 /\ kind[stack[Depth].val] = "DropGuard" /\ counter' # counter)
            => /\ counter' = counter + 1
               /\ fired' = [fired EXCEPT ![stack[Depth].val] = 1]
               /\ inner[stack[Depth].val].present]_vars
    /\ [][(Len(stack') < Depth /\ kind[stack[Depth].val] = "DropGuard")
            => /\ fired[stack[Depth].val] = 1 /\ counter' = counter
               /\ cells'[stack[Depth].cell].outcome = "returned"]_vars

\* a guard that was never extracted fell out of scope: the counter went 0 -> 1
C13_Witness ==
    /\ Depth = 0 /\ counter = 1
    /\ \E c \in Cells : /\ cells[c].outcome = "returned"
                         /\ kind[cells[c].val] = "DropGuard"
                         /\ wrapped[cells[c].val] = 1
                         /\ fired[cells[c].val] = 1

\* C14: extracting the function from a guard calls nothing and hands the
\* function over; the guard it was extracted from is gone and never dispatches
\* drop_move; a function is called by value at most once, however many guards
\* it went through, and exactly once as soon as one guard around it was dropped
\* and its drop_move returned
C14_ExtractedGuardNeverCalls ==
    /\ [][\A c \in Cells : (Extracts(c) /\ kind[cells[c].val] = "DropGuard")
            => /\ counter' = counter /\ fired' = fired /\ stack' = stack
               /\ inner'[cells[c].val].present
               /\ inner'[cells[c].val].have = {"f0"}
               /\ inner'[cells[c].val].data = cells[c].data]_vars
    /\ [](\A c \in Cells : (cells[c].via = "into_inner" /\ kind[cells[c].val] = "DropGuard")
            => /\ cells[c].loc = "gone" /\ cells[c].dispatched = 0
               /\ cells[c].outcome = "none")
    /\ [](\A v \in Values : kind[v] = "DropGuard"
            => /\ fired[v] <= 1
               /\ dropMoveCalls[v] <= 1
               /\ (\E c \in Cells : cells[c].val = v /\ cells[c].outcome = "returned")
                     => fired[v] = 1)

\* the function was extracted from a first guard, wrapped in a second, and the
\* second guard was dropped: one call in total
C14_Witness ==
    \E c, d \in Cells :
        /\ c # d /\ cells[c].val = cells[d].val
        /\ cells[c].via = "into_inner" /\ handles[c].st = "Free"
        /\ cells[d].outcome = "returned"
        /\ kind[cells[c].val] = "DropGuard"
        /\ fired[cells[c].val] = 1 /\ counter = 1

\* C18: a call through the borrow (or in place) adds 1 to the counter and
\* changes nothing else: the guard is still owned and Holding; an overwrite
\* through the borrow changes the member and nothing else; only an owned
\* Holding guard can be borrowed from; and the drop of the guard afterwards
\* still calls the function exactly once, whatever was called before
C18_BorrowLeavesGuardHolding ==
    /\ [][plain' # plain
            => /\ counter' = counter + 1
               /\ UNCHANGED <<kind, inner, cells, handles, stack, aborted, released,
                              dropMoveCalls, wrapped, fired, list, log>>]_vars
    /\ [][\A c \in Cells :
            (cells[c].loc = "user" /\ cells'[c].loc = "user" /\ cells'[c] # cells[c])
            => /\ cells[c].st = "Holding"
               /\ cells' = [cells EXCEPT ![c].data = cells'[c].data]
               /\ UNCHANGED <<inner, handles, stack, released, dropMoveCalls, effects>>]_vars
    /\ [](\A c \in Cells : (ENABLED DropGuard_deref_mut_call(c))
            => cells[c].st = "Holding" /\ cells[c].loc = "user")
    /\ [](\A c \in Cells : (cells[c].outcome = "returned" /\ kind[cells[c].val] = "DropGuard")
            => /\ fired[cells[c].val] = 1
               /\ counter >= plain.direct + plain.borrowed + 1)

\* the function was called once in place, once through the guard's borrow and
\* once by the guard's drop: the counter reads 3
C18_Witness ==
    /\ Depth = 0 /\ counter = 3
    /\ plain = [direct |-> 1, borrowed |-> 1]
    /\ \E c \in Cells : /\ cells[c].outcome = "returned"
                         /\ kind[cells[c].val] = "DropGuard"
                         /\ fired[cells[c].val] = 1

\* the drop_move of v has pushed v's payload
Pushed(v) ==
    /\ dropMoveCalls[v] >= 1
    /\ \A h \in Dispatched(v) : handles[h].conv = "inner"
    /\ ~(inner[v].present /\ "f0" \in inner[v].have)

\* C15: the list holds one entry for each ReturnToSender whose drop_move has
\* pushed, and nothing else: it is unchanged while a value is live (wrapped,
\* borrowed from, extracted, re-wrapped). From the drop on, the payload is
\* handed on unchanged (wrapper -> handle -> inner structure -> new last list
\* entry) and no step in between changes it; the push tears nothing down; and
\* after drop_move returned the payload member was never torn down while the
\* other member was torn down once
C15_PayloadReturnedOnce ==
    /\ [](Len(list) = Cardinality({v \in Values : Pushed(v)}))
    /\ [](\A v \in Values : dropMoveCalls[v] <= 1)
    /\ [][\A c \in Cells : FallsOutOfScope(c)
            => /\ list' = list
               /\ cells'[stack'[Depth + 1].handle].data = cells[c].data]_vars
    /\ [][\A i \in 1..Depth :
            LET v == stack[i].val
                h == stack[i].handle
            IN /\ (handles[h].loc = "user" /\ handles'[h].loc = "user")
                     => cells'[h].data = cells[h].data /\ list' = list
               /\ (handles[h].loc = "user" /\ handles'[h].loc # "user")
                     => /\ inner'[v].present /\ inner'[v].have = Fields
                        /\ inner'[v].data = cells[h].data /\ list' = list
               /\ (inner[v].present /\ inner'[v].present)
                     => inner'[v].data = inner[v].data
               /\ (inner[v].present /\ inner[v].have = Fields /\ inner'[v] # inner[v])
                     => /\ list' = Append(list, inner[v].data)
                        /\ released' = released
                        /\ inner'[v].present /\ inner'[v].have = {"f1"}]_vars
    /\ [](\A c \in Cells : cells[c].outcome # "none"
            => /\ Depth = 0 => cells[c].outcome = "returned"
               /\ cells[c].outcome = "returned"
                     => /\ Pushed(cells[c].val)
                        /\ released[cells[c].val] = [f \in Fields |->
                                                       IF f = "f0" THEN 0 ELSE 1])

\* a ReturnToSender whose payload had been overwritten in place fell out of
\* scope; the list, empty until then, holds that payload
C15_Witness ==
    /\ Depth = 0 /\ list = <<"b">>
    /\ \E c \in Cells : /\ cells[c].outcome = "returned" /\ cells[c].takes = 1
                         /\ released[cells[c].val]["f0"] = 0

\* C16: for a value whose drop_move has been entered, every mutation made by a
\* member's teardown comes later in the order of external mutations than the
\* mutation drop_move itself made; entering drop_move and taking the inner
\* structure out of the handle mutate nothing
C16_FinalizerMutatesFirst ==
    /\ [](\A v \in Values : dropMoveCalls[v] >= 1
            => \A j \in 1..Len(log) :
                  (log[j].val = v /\ log[j].by # "finalizer")
                  => \E i \in 1..(j - 1) : log[i] = [val |-> v, by |-> "finalizer"])
    /\ [][Len(stack') > Depth => log' = log]_vars
    /\ [][\A h \in Cells : (handles[h].conv = "none" /\ handles'[h].conv = "inner")
            => log' = log]_vars

\* drop_move mutated, extracted the inner structure, and the two members were
\* then torn down in turn
C16_Witness ==
    /\ Depth = 0 /\ Len(log) = 3
    /\ log[1].by = "finalizer" /\ log[2].by = "f0" /\ log[3].by = "f1"
    /\ \E c \in Cells : cells[c].outcome = "returned"

\* C17: the conversions carry the members over unchanged. The handle built by
\* a wrapper's teardown holds the members the wrapper held. Taking the inner
\* structure out of a handle hands over the members the handle held; wrapping
\* an inner structure gives a new Holding wrapper with the same members, and
\* tears nothing down; extracting from a wrapper hands over the members it
\* held. And for every member value d, a wrapper built around d holds d, and
\* extracting from it, or from a handle built around d, gives d back
C17_RoundTrip ==
    /\ [][\A c \in Cells : FallsOutOfScope(c)
            => /\ cells'[stack'[Depth + 1].handle].val = cells[c].val
               /\ cells'[stack'[Depth + 1].handle].data = cells[c].data]_vars
    /\ [][\A h \in Cells : (handles[h].conv = "none" /\ handles'[h].conv = "inner")
            => /\ inner'[cells[h].val].present
               /\ inner'[cells[h].val].data = cells[h].data
               /\ inner'[cells[h].val].have = Fields]_vars
    /\ [][\A v \in Values : wrapped'[v] > wrapped[v] /\ inner[v].present
            => /\ inner[v].have = Fields /\ ~inner'[v].present
               /\ released' = released /\ stack' = stack
               /\ \E c \in Cells :
                     /\ cells[c].st = "Free"
                     /\ cells' = [cells EXCEPT ![c] = cells'[c]]
                     /\ cells'[c].st = "Holding" /\ cells'[c].loc = "user"
                     /\ cells'[c].owner = Depth
                     /\ cells'[c].val = v /\ cells'[c].data = inner[v].data]_vars
    /\ [][\A c \in Cells : Extracts(c)
            => /\ inner'[cells[c].val].data = cells[c].data
               /\ inner'[cells[c].val].have = Fields]_vars
    /\ [](FreeCells # {} =>
            \A v \in Values, d \in Vals :
               LET c == NewCell
                   w == DropMoveWrapper_new(cells, c, v, d, "user", Depth)
                   h == DropHandle_from_cells(cells, c, v, d)
               IN /\ w[c].st = "Holding" /\ w[c].val = v /\ w[c].data = d
                  /\ h[c].st = "Holding" /\ h[c].val = v /\ h[c].data = d
                  /\ DropMoveWrapper_into_inner(w, c)[c].st = "Released"
                  /\ OwnedInner("Generic", w[c].data).data = d
                  /\ OwnedInner("Generic", h[c].data).data = d)

\* drop_move took the inner structure out of its handle and wrapped it again:
\* it holds a wrapper with the members the dropped wrapper had
C17_Witness ==
    /\ Depth > 0
    /\ handles[stack[Depth].handle].conv = "inner"
    /\ \E c \in Cells : /\ OwnsCell(c) /\ cells[c].st = "Holding"
                         /\ cells[c].val = stack[Depth].val /\ cells[c].data = "b"

\* C20: while a failed drop_move is being unwound, (1) a handle it still owns
\* goes away only by the handle's own teardown, which tears every member down
\* once, dispatches nothing and leaves the call stack alone; (2) an inner
\* structure it owns goes away by tearing down exactly the members it still
\* has, with no handle and no wrapper involved; and (3) once a drop_move has
\* failed, every member of its value has been torn down exactly once, its
\* wrapper was dispatched once, and every handle built for the value is gone
\* after one take, either converted or torn down, never both
C20_FailurePath ==
    /\ [][\A h \in Cells :
            (Unwinding /\ OwnsHandle(h) /\ handles'[h].loc # "user")
            => /\ handles'[h].dropped /\ handles'[h].conv = "none"
               /\ handles'[h].takes = 1
               /\ released' = ReleaseFields(released, cells[h].val, Fields)
               /\ cells'[h].via = "into_inner" /\ cells'[h].dispatched = 0
               /\ dropMoveCalls' = dropMoveCalls /\ stack' = stack]_vars
    /\ [][\A v \in Values :
            (Unwinding /\ OwnsInner(v) /\ ~inner'[v].present)
            => /\ released' = ReleaseFields(released, v, inner[v].have)
               /\ handles' = handles /\ cells' = cells
               /\ dropMoveCalls' = dropMoveCalls /\ stack' = stack]_vars
    /\ [](\A c \in Cells : cells[c].outcome = "failed"
            => /\ released[cells[c].val] = [f \in Fields |-> 1]
               /\ cells[c].dispatched = 1 /\ cells[c].takes = 1
               /\ \A h \in Dispatched(cells[c].val) :
                     handles[h].loc = "user"
                     \/ /\ handles[h].loc = "gone" /\ handles[h].takes = 1
                        /\ handles[h].dropped # (handles[h].conv # "none"))

\* a drop_move failed after it had taken the inner structure out of its handle
C20_Witness ==
    /\ Depth = 0
    /\ \E c \in Cells : /\ cells[c].outcome = "failed"
                         /\ \E h \in Dispatched(cells[c].val) : handles[h].conv = "inner"
                         /\ released[cells[c].val] = [f \in Fields |-> 1]


\* C19: what the wrappers' comparisons return is what the inner structures'
\* give: equal exactly when the inner structures are equal (member for
\* member), ordered as the inner structures are, hashed as they are; and the
\* results agree with each other: equal exactly when the ordering says Equal,
\* partial_cmp is Some of cmp, and equal wrappers hash alike
C19_ComparisonsDelegate ==
    verdict.computed
    => /\ verdict.eq <=> Inner_eq(lhs, rhs)
       /\ verdict.eq <=> lhs = rhs
       /\ verdict.cmp = Inner_cmp(lhs, rhs)
       /\ verdict.partial_cmp = [some |-> verdict.cmp]
       /\ verdict.eq <=> verdict.cmp = "Equal"
       /\ verdict.hash_lhs = Inner_hash(lhs, << >>)
       /\ verdict.hash_rhs = Inner_hash(rhs, << >>)
       /\ verdict.eq => verdict.hash_lhs = verdict.hash_rhs
       /\ verdict.cmp = "Less" <=>
             (lhs[1] < rhs[1] \/ (lhs[1] = rhs[1] /\ lhs[2] < rhs[2]))

\* two structures that differ in the second member only were compared
C19_Witness ==
    /\ verdict.computed
    /\ lhs[1] = rhs[1] /\ lhs[2] < rhs[2]
    /\ ~verdict.eq /\ verdict.cmp = "Less"

C22_HandleTakenExactlyOnce ==
    /\ [](\A h \in Cells : handles[h].st # "Free"
            => /\ handles[h].takes <= 1
               /\ handles[h].st = "Holding" <=> handles[h].takes = 0
               /\ handles[h].st = "Taken" <=> handles[h].loc = "gone"
               /\ handles[h].takes = 1
                     <=> (handles[h].dropped # (handles[h].conv # "none"))
               /\ handles[h].takes = 0
                     <=> (cells[h].loc = "handle" /\ cells[h].st = "Holding"))
    /\ [][\A h \in Cells : handles'[h].takes # handles[h].takes
            => /\ handles[h].loc = "user" /\ handles[h].takes = 0
               /\ handles'[h].takes = 1 /\ handles'[h].loc = "gone"
               /\ handles'[h].dropped => handles[h].conv = "none"]_vars
    /\ [][Len(stack') < Depth => handles[stack[Depth].handle].takes = 1]_vars

\* a handle built by user code was converted with into_outer, and the handle
\* built by the teardown of the returned structure was torn down
C22_Witness ==
    /\ Depth = 0
    /\ \E h, g \in Cells :
          /\ handles[h].origin = "user" /\ handles[h].conv = "outer"
          /\ handles[h].takes = 1 /\ ~handles[h].dropped
          /\ handles[g].origin = "drop" /\ handles[g].dropped /\ handles[g].takes = 1

\* a step that makes a wrapper by cloning: the slot d is filled from nothing
ClonedInto(d) == cells[d].st = "Free" /\ d > MaxCells /\ cells'[d].st = "Holding"
\* the wrappers whose drop_move has returned
Dropped == {c \in Cells : cells[c].via = "drop" /\ cells[c].outcome = "returned"}

\* C23: a clone of a wrapper is a second value with a lifecycle of its own. The
\* clone step fills a new wrapper, Holding a value that did not exist before,
\* of the same type and with the same members as its source, and leaves the
\* source, every other wrapper and all finalizer state alone; extracting from
\* or dropping one wrapper leaves every other Holding wrapper as it was; and
\* the finalizer runs at most once per copy, exactly once for a copy whose
\* wrapper was dropped, so the calls counted are one per copy
C23_CloneIsIndependent ==
    /\ [][\A d \in Cells : ClonedInto(d)
            => /\ \E c \in Cells \ {d} :
                    /\ cells[c].st = "Holding" /\ cells[c].loc = "user"
                    /\ cells'[d].val # cells[c].val
                    /\ kind[cells'[d].val] = "None"
                    /\ kind'[cells'[d].val] = kind[cells[c].val]
                    /\ cells'[d].data = cells[c].data
               /\ cells'[d].loc = "user" /\ cells'[d].takes = 0
               /\ \A c \in Cells \ {d} : cells'[c] = cells[c]
               /\ UNCHANGED <<inner, handles, stack, released, dropMoveCalls,
                              counter, fired>>]_vars
    /\ [][\A c \in Cells : (Extracts(c) \/ FallsOutOfScope(c))
            => \A d \in Cells \ {c} :
                    (cells[d].st = "Holding" /\ cells[d].loc = "user")
                        => cells'[d] = cells[d]]_vars
    /\ [](\A v \in Values : kind[v] = "DropGuard"
            => /\ dropMoveCalls[v] <= 1 /\ fired[v] <= 1
               /\ (\E c \in Dropped : cells[c].val = v)
                     => dropMoveCalls[v] = 1 /\ fired[v] = 1)
    /\ [](counter = Cardinality({v \in Values : fired[v] = 1}))
    /\ [](\A c, d \in Dropped : c # d => cells[c].val # cells[d].val)

\* a guard was cloned and both copies were dropped: two values, each with its
\* one finalizer call, the counter at 2
C23_Witness ==
    /\ Depth = 0 /\ counter = 2
    /\ \E c, d \in Dropped :
          /\ c <= MaxCells /\ d > MaxCells
          /\ cells[c].val # cells[d].val
          /\ dropMoveCalls[cells[c].val] = 1 /\ dropMoveCalls[cells[d].val] = 1
          /\ fired[cells[c].val] = 1 /\ fired[cells[d].val] = 1

\* the DropByValueWrappers made so far
LegacyCells == {c \in Cells : cells[c].st # "Free" /\ kind[cells[c].val] = "Legacy"}
\* the two ways the contents are moved out to the caller
Destructured == {"destructure", "read_forget"}

\* C24: a DropByValueWrapper never tears its contents down. Dropping one that
\* was not destructured releases no member, takes nothing out of the storage
\* and runs no finalizer, and no member of its value is ever released;
\* destructure moves the contents out once, to the caller, with every member
\* unchanged, releasing nothing; no wrapper is taken from twice
C24_LegacySuppressesTeardown ==
    /\ [][\A c \in LegacyCells :
            (cells[c].loc = "user" /\ cells'[c].loc = "gone" /\ cells'[c].via = "drop")
            => /\ released' = released /\ inner' = inner
               /\ stack' = stack /\ dropMoveCalls' = dropMoveCalls
               /\ cells'[c].st = "Holding" /\ cells'[c].takes = 0]_vars
    /\ [][\A c \in LegacyCells :
            (cells[c].loc = "user" /\ cells'[c].via \in Destructured)
            => /\ cells[c].st = "Holding" /\ cells[c].takes = 0
               /\ cells'[c].st = "Released" /\ cells'[c].takes = 1
               /\ cells'[c].loc = "gone"
               /\ inner'[cells[c].val] =
                      [present |-> TRUE, owner |-> Depth, data |-> cells[c].data,
                       have |-> Fields]
               /\ released' = released
               /\ stack' = stack /\ dropMoveCalls' = dropMoveCalls]_vars
    /\ [](\A c \in LegacyCells :
            /\ cells[c].takes <= 1 /\ cells[c].dispatched = 0
            /\ cells[c].takes = 1 <=> cells[c].via \in Destructured
            /\ cells[c].via = "drop"
                  => /\ cells[c].st = "Holding"
                     /\ \A f \in Fields : released[cells[c].val][f] = 0)
    /\ [](\A v \in Values : kind[v] = "Legacy"
            => /\ dropMoveCalls[v] = 0
               /\ \A f \in Fields : released[v][f] <= 1)

\* a wrapper was destructured, its contents were wrapped again, and that wrapper
\* was dropped: the members are still in its storage, never released
C24_Witness ==
    \E c, d \in LegacyCells :
        /\ cells[c].val = cells[d].val
        /\ cells[c].via \in Destructured /\ cells[c].takes = 1
        /\ cells[d].via = "drop" /\ cells[d].loc = "gone" /\ cells[d].st = "Holding"
        /\ ~inner[cells[d].val].present
        /\ \A f \in Fields : released[cells[d].val][f] = 0

\* how many #[DropByValue(..)] attributes the type carries, and the arguments
\* of the first of them
DropByValueLists ==
    SelectSeq(ast.attrs, LAMBDA x : x.form = "List" /\ x.name = "DropByValue")
Args == IF Len(DropByValueLists) = 0 THEN << >> ELSE DropByValueLists[1].args
\* how many arguments are key = literal with that key, with a literal of any
\* type and with a string literal
Given(k) ==
    Cardinality({i \in 1..Len(Args) : Args[i].form = "NameValue" /\ Args[i].key = k})
GivenStr(k) ==
    Cardinality({i \in 1..Len(Args) : /\ Args[i].form = "NameValue"
                                        /\ Args[i].key = k /\ Args[i].lit = "Str"})
BareLiteral == \E i \in 1..Len(Args) : Args[i].form = "Literal"
\* the arguments the loop keeps as attributes of the outer type
PassedThrough == SelectSeq(Args, LAMBDA x : ~(x.form = "NameValue" /\ x.lit = "Str"))

\* C25 as stated: the derive fails without exactly one DropByValue attribute,
\* without a name, with more than one name or vis, and with an argument whose
\* key is none of the two (name and vis being given as strings); otherwise it
\* succeeds
C25_Original ==
    out.status # "none"
    => /\ Len(DropByValueLists) # 1 => out.status = "panicked"
       /\ GivenStr("name") = 0 => out.status = "panicked"
       /\ (GivenStr("name") > 1 \/ GivenStr("vis") > 1) => out.status = "panicked"
       /\ (Given("doc") > 0 \/ BareLiteral) => out.status = "panicked"
       /\ (/\ Len(DropByValueLists) = 1 /\ GivenStr("name") = 1 /\ GivenStr("vis") <= 1
           /\ Given("doc") = 0 /\ ~BareLiteral) => out.status = "expanded"

\* C25: the derive fails when the type does not carry exactly one
\* #[DropByValue(..)] attribute; with exactly one, it succeeds exactly when
\* among the arguments of the form key = "string" there is one name, at most
\* one vis and no other key, and no argument is a bare literal. Name and vis
\* are then the strings given (vis defaults to the visibility of the type), and
\* every other argument -- a word, a list, a key with a literal that is not a
\* string -- is kept as an attribute of the generated type instead of being
\* rejected
C25_RejectsMalformed ==
    out.status # "none"
    => /\ out.status \in {"expanded", "panicked"}
       /\ Len(DropByValueLists) # 1 => out.status = "panicked"
       /\ Len(DropByValueLists) = 1
            => (out.status = "expanded"
                  <=> /\ GivenStr("name") = 1 /\ GivenStr("vis") <= 1
                      /\ GivenStr("doc") = 0 /\ ~BareLiteral)
       /\ GivenStr("name") = 0 => out.status = "panicked"
       /\ (GivenStr("name") > 1 \/ GivenStr("vis") > 1) => out.status = "panicked"
       /\ out.status = "expanded"
            => /\ out.name = <<"Outer">>
               /\ out.visibility = IF GivenStr("vis") = 1 THEN <<"pub">>
                                   ELSE tokens_to_string(ast.vis)
               /\ out.attrs = PassedThrough

\* the one DropByValue attribute of a type names it twice: rejected
C25_Witness ==
    /\ out.status = "panicked" /\ out.panic = "Cannot have multiple names."
    /\ Len(DropByValueLists) = 1 /\ GivenStr("name") = 2

\* the order of the visibilities the claim is about
Rank(v) ==
    CASE v.tag = "Inherited" -> 0
      [] v.tag = "Restricted" -> 1
      [] v.tag = "Crate" -> 2
      [] OTHER -> 3
\* the derive ran on a struct with one field: destructure_vis is
\* visibility_max(ast.vis, ast.fields[1])
OnePair ==
    out.status = "expanded" /\ ast.body = "Struct" /\ Len(ast.fields) = 1
\* the visibilities of the type and of its fields, in fold order
Folded == <<ast.vis>> \o ast.fields
Restricteds == {i \in 1..Len(Folded) : Folded[i].tag = "Restricted"}

\* C26 as stated: visibility_max of a pair is the one that ranks highest (two
\* restricted visibilities give Inherited), whichever comes first
C26_Original ==
    OnePair
    => LET x == ast.vis
           y == ast.fields[1]
           r == out.destructure_vis
       IN  /\ IF x.tag = "Restricted" /\ y.tag = "Restricted"
              THEN r = Vis("Inherited", "")
              ELSE r \in {x, y} /\ Rank(r) >= Rank(x) /\ Rank(r) >= Rank(y)
           /\ visibility_max(y, x) = r

\* C26: visibility_max of a pair is the one that ranks lowest in the order
\* Inherited < Restricted < Crate < Public, the more restrictive of the two
\* (two restricted visibilities give Inherited), whichever comes first; folded
\* over the type and its fields it gives the most restrictive of them all,
\* Inherited as soon as two of them are restricted, and an enum keeps the
\* visibility of the type
C26_VisibilityMaxIsMostRestrictive ==
    /\ OnePair
       => LET x == ast.vis
              y == ast.fields[1]
              r == out.destructure_vis
          IN  /\ IF x.tag = "Restricted" /\ y.tag = "Restricted"
                 THEN r = Vis("Inherited", "")
                 ELSE r \in {x, y} /\ Rank(r) <= Rank(x) /\ Rank(r) <= Rank(y)
              /\ visibility_max(y, x) = r
    /\ (out.status = "expanded" /\ ast.body = "Struct")
       => LET r == out.destructure_vis
          IN  IF Cardinality(Restricteds) >= 2
              THEN r = Vis("Inherited", "")
              ELSE /\ \E i \in 1..Len(Folded) : r = Folded[i]
                   /\ \A i \in 1..Len(Folded) : Rank(r) <= Rank(Folded[i])
    /\ (out.status = "expanded" /\ ast.body = "Enum")
       => out.destructure_vis = ast.vis

\* a public struct with one private field: the wrapper member is private
C26_Witness ==
    /\ OnePair
    /\ ast.vis = Vis("Public", "") /\ ast.fields[1] = Vis("Inherited", "")
    /\ out.destructure_vis = Vis("Inherited", "")
====
